---------------------------- MODULE Spec2Model ----------------------------
(***************************************************************************)
(* Multilinear-extension evaluation over the Boolean hypercube             *)
(* (src/src/multilinear/mle.rs).                                           *)
(*                                                                         *)
(* The state machine follows one caller of the library: it builds a        *)
(* BCubeMapOracle (BCubeMapOracle::new on a caller-supplied hash map, or   *)
(* BCubeMapOracle::new_rand), wraps it in a MultilinearExtension and calls *)
(* evaluate.                                                               *)
(*                                                                         *)
(* Field elements are the integers mod P.  A point (Vec<F>) is a sequence  *)
(* of field elements; coordinate j of the source (0-based) is element j+1  *)
(* of the sequence.  A HashMap<Vec<F>, F> is a function whose DOMAIN is    *)
(* its key set.  The order in which the map's iterator yields its entries  *)
(* is not fixed by the map's contents: a traversal is a sequence of steps, *)
(* one per entry yielded, each taking any entry not yet yielded, so every  *)
(* order of every key set is a behaviour.                                  *)
(*                                                                         *)
(* Results are records: [tag |-> "Ok", ...], [tag |-> "Err", err |-> ...]  *)
(* and, for todo!(), [tag |-> "Panic"].                                    *)
(***************************************************************************)
EXTENDS Integers, Sequences, FiniteSets

\* ------------------------------------------------------------------ bounds

\* Largest hypercube dimension explored (dim, and the MLE's stored dim).
MaxDim == 2

\* The field is Z/P (the generic parameter F: Field).
P == 7

\* Stored values and random draws repeat with this period along the index:
\* up to PatternLen entries every assignment of values is explored.
PatternLen == 4

\* ------------------------------------------------------------ field scalars

Field == 0 .. (P - 1)

Zero == 0

One == 1 % P

FAdd(a, b) == (a + b) % P

FSub(a, b) == (a + P - b) % P

FMul(a, b) == (a * b) % P

\* 1 << n, for n below the width of usize.
Shl1(n) == 2 ^ n

\* --------------------------------------------------------------- results

Ok(v) == [tag |-> "Ok", val |-> v]

IncorrectOracleSize == [tag |-> "Err", err |-> "IncorrectOracleSize"]

IncorrectOraclePointDimension(e, f) ==
    [tag |-> "Err", err |-> "IncorrectOraclePointDimension",
     expected |-> e, found |-> f]

NonbooleanOraclePoint == [tag |-> "Err", err |-> "NonbooleanOraclePoint"]

PointNotFound == [tag |-> "Err", err |-> "PointNotFound"]

WrongDimension(e, f) ==
    [tag |-> "Err", err |-> "WrongDimension", expected |-> e, found |-> f]

InconsistentDimensions(b, zd) ==
    [tag |-> "Err", err |-> "InconsistentDimensions", b_dim |-> b, z_dim |-> zd]

Panic == [tag |-> "Panic"]

None == [tag |-> "None"]

\* ------------------------------------------------------ to_bcube_elt, eq

\* Mutant of to_bcube_elt: the shift is off by one (bit i + 1 for
\* coordinate i).
to_bcube_elt_shifted(dim, n) ==
    [i \in 1 .. dim |->
        IF (n \div Shl1(i)) % 2 = 1 THEN One ELSE Zero]

\* Coordinate i (0-based) is one iff bit i of n is set.
to_bcube_elt(dim, n) ==
    [i \in 1 .. dim |->
        IF (n \div Shl1(i - 1)) % 2 = 1 THEN One ELSE Zero]

\* Mutant of EqTerm: the second factor uses z where 1 - z is meant.
EqTerm_no_complement(b, zj) ==
    FAdd(FMul(b, zj), FMul(FSub(One, b), zj))

\* One factor of the Lagrange basis: b*z + (1 - b)*(1 - z).
EqTerm(b, zj) == FAdd(FMul(b, zj), FMul(FSub(One, b), FSub(One, zj)))

\* Mutant of EqProduct: the product starts from F::zero().
EqProduct_from_zero(b, zz, n) == Zero

\* .product() of the first n factors; the empty product is F::one().
RECURSIVE EqProduct(_, _, _)
EqProduct(b, zz, n) ==
    IF n = 0 THEN One
    ELSE FMul(EqProduct(b, zz, n - 1), EqTerm(b[n], zz[n]))

\* Mutant of eq: no length check; zip stops at the shorter vector.
eq_unchecked(b, zz) ==
    Ok(EqProduct(b, zz, IF Len(b) < Len(zz) THEN Len(b) ELSE Len(zz)))

eq(b, zz) ==
    IF Len(b) # Len(zz)
    THEN InconsistentDimensions(Len(b), Len(zz))
    ELSE Ok(EqProduct(b, zz, Len(b)))

\* --------------------------------------------------------- BCubeMapOracle

IsBoolean(point) == \A j \in 1 .. Len(point) : point[j] \in {Zero, One}

\* Mutant of CheckPoint: the booleanness check is missing.
CheckPoint_length_only(d, point) ==
    IF Len(point) # d THEN IncorrectOraclePointDimension(d, Len(point))
    ELSE None

\* Mutant of CheckPoint: booleanness is checked before length.
CheckPoint_boolean_first(d, point) ==
    IF ~IsBoolean(point) THEN NonbooleanOraclePoint
    ELSE IF Len(point) # d THEN IncorrectOraclePointDimension(d, Len(point))
    ELSE None

\* The body of the loop of BCubeMapOracle::new for one key: the length
\* check, then the booleanness check.  None: the key passes.
CheckPoint(d, point) ==
    IF Len(point) # d THEN IncorrectOraclePointDimension(d, Len(point))
    ELSE IF ~IsBoolean(point) THEN NonbooleanOraclePoint
    ELSE None

\* The size check of BCubeMapOracle::new.  None: the loop over the keys
\* is entered.
CheckSize(d, m) ==
    LET npoints == Shl1(d) IN
    IF Cardinality(DOMAIN m) # npoints THEN IncorrectOracleSize ELSE None

\* Ok(BCubeMapOracle { dim, map })
BCubeMapOracle(d, m) == [tag |-> "Ok", dim |-> d, map |-> m]

\* HashMap::insert: a present key has its value replaced.
Insert(m, k, v) ==
    [x \in (DOMAIN m) \cup {k} |-> IF x = k THEN v ELSE m[x]]

\* The loop of new_rand, for n in 0..num_points; rnd[n + 1] is the
\* field element F::rand(rng) returns in iteration n.
RECURSIVE RandMap(_, _, _)
RandMap(d, rnd, n) ==
    IF n = 0 THEN <<>>
    ELSE Insert(RandMap(d, rnd, n - 1), to_bcube_elt(d, n - 1), rnd[n])

\* The map new_rand hands to new.
new_rand_map(d, rnd) == RandMap(d, rnd, Shl1(d))

query(o, point) ==
    IF point \in DOMAIN o.map THEN Ok(o.map[point]) ELSE PointNotFound

\* --------------------------------------------------- MultilinearExtension

EvaluationType == {"Naive", "Zhu", "Rothblum", "Ramakrishna"}

MultilinearExtension_new(o, d, s) ==
    [oracle |-> o, dim |-> d, strategy |-> s]

\* Mutant of FoldInit: the fold starts from F::one().
FoldInit_one == One

\* The initial accumulator of try_fold.
FoldInit == Zero

\* Mutant of FoldStep: the product and the sum are exchanged.
FoldStep_swapped(acc0, f_b, chi) == FAdd(FMul(acc0, f_b), chi)

\* The closure of try_fold once eq has succeeded: acc + f_b * chi.
FoldStep(acc0, f_b, chi) == FAdd(acc0, FMul(f_b, chi))

\* The dimension check of naive.  None: the fold over the oracle is entered.
naive_check(e, zz) ==
    IF Len(zz) # e.dim THEN WrongDimension(e.dim, Len(zz)) ELSE None

zhu(e, zz) == Panic

rothblum(e, zz) == Panic

ramakrishna(e, zz) == Panic

\* The dispatch of evaluate, up to the point where naive enters its fold.
evaluate(e, zz) ==
    CASE e.strategy = "Naive" -> naive_check(e, zz)
      [] e.strategy = "Zhu" -> zhu(e, zz)
      [] e.strategy = "Rothblum" -> rothblum(e, zz)
      [] e.strategy = "Ramakrishna" -> ramakrishna(e, zz)

\* ------------------------------------------------------------------ inputs

Dims == 0 .. MaxDim

\* Values stored in caller-built oracles and drawn by the random source.
Vals == {3, 5}

\* Coordinates of evaluation points.
ZVals == {0, 1, 2}

Points(S, n) == [1 .. n -> S]

BoolKeys(d) == Points({Zero, One}, d)

\* Keys that BCubeMapOracle::new must reject for dimension d: too long,
\* too long and non-boolean, and (d > 0) too short, non-boolean.
BadKeys(d) ==
    {[j \in 1 .. (d + 1) |-> Zero],
     [j \in 1 .. (d + 1) |-> IF j = 1 THEN 2 % P ELSE Zero]}
    \cup (IF d = 0 THEN {}
          ELSE {[j \in 1 .. (d - 1) |-> Zero],
                [j \in 1 .. d |-> IF j = 1 THEN 2 % P ELSE Zero]})

KeySets(d) ==
    {K \in SUBSET (BoolKeys(d) \cup BadKeys(d)) :
        Cardinality(K) \in {Shl1(d) - 1, Shl1(d), Shl1(d) + 1}}

\* The oracles of the worked examples: values [9], [3, 5] and [1, 2, 3, 4]
\* at the points of index 0, 1, ...
ExampleValues == <<<<9 % P>>, <<3 % P, 5 % P>>, <<1 % P, 2 % P, 3 % P, 4 % P>>>>

\* The index whose bit j (least-significant first) is coordinate j of k.
RECURSIVE IndexOf(_, _)
IndexOf(k, n) ==
    IF n = 0 THEN 0
    ELSE IndexOf(k, n - 1) + (IF k[n] = One THEN 2 ^ (n - 1) ELSE 0)

ExampleMaps(d) ==
    IF d + 1 > Len(ExampleValues) THEN {}
    ELSE {[k \in BoolKeys(d) |-> ExampleValues[d + 1][IndexOf(k, d) + 1]]}

\* Sequences of n values, the value at position i given by a pattern of
\* PatternLen values: all of Vals^n for n <= PatternLen.
ValueSeqs(n) ==
    {[i \in 1 .. n |-> pat[((i - 1) % PatternLen) + 1]] :
        pat \in Points(Vals, PatternLen)}

\* Well-formed maps for dimension d: the value of the point of index i is
\* element i + 1 of a value sequence.
CubeMaps(d) ==
    {[k \in BoolKeys(d) |-> vs[IndexOf(k, d) + 1]] : vs \in ValueSeqs(Shl1(d))}

InputMaps(d) ==
    CubeMaps(d)
        \cup {[k \in K |-> One] : K \in KeySets(d)}
        \cup ExampleMaps(d)

\* Evaluation points: every point of every dimension explored, and one
\* point longer than any of them.
ZPoints ==
    UNION {Points(ZVals, n) : n \in 0 .. MaxDim}
        \cup {[j \in 1 .. (MaxDim + 1) |-> Zero]}

\* ------------------------------------------------------------------- state

VARIABLES
    pc,       \* "start", "new_loop", "oracle", "mle", "fold", "evaluated",
              \* "aborted"
    ctor,     \* the constructor called: "new" or "new_rand"
    in_dim,   \* the dim passed to the constructor
    in_map,   \* the map passed to (new) or built by (new_rand) the constructor
    oracle,   \* Result<BCubeMapOracle, OracleError>
    mle,      \* the MultilinearExtension
    z,        \* the argument of evaluate
    result,   \* what evaluate returned
    iter,     \* the keys the running iterator has not yielded yet
    acc       \* the accumulator of try_fold

vars == <<pc, ctor, in_dim, in_map, oracle, mle, z, result, iter, acc>>

Init ==
    /\ pc = "start"
    /\ ctor = "none"
    /\ in_dim = 0
    /\ in_map = <<>>
    /\ oracle = None
    /\ mle = None
    /\ z = <<>>
    /\ result = None
    /\ iter = {}
    /\ acc = Zero

\* BCubeMapOracle::new(d, m) up to its loop: the size check, and the
\* iterator over &map created.
EnterNew(d, m) ==
    LET r == CheckSize(d, m) IN
    /\ in_dim' = d
    /\ in_map' = m
    /\ oracle' = r
    /\ pc' = IF r.tag = "Err" THEN "oracle" ELSE "new_loop"
    /\ iter' = IF r.tag = "Err" THEN {} ELSE DOMAIN m

OracleNew ==
    /\ pc = "start"
    /\ \E d \in Dims : \E m \in InputMaps(d) : EnterNew(d, m)
    /\ ctor' = "new"
    /\ UNCHANGED <<mle, z, result, acc>>

\* new_rand builds its map and ends in Self::new(dim, map).
OracleNewRand ==
    /\ pc = "start"
    /\ \E d \in Dims : \E rnd \in ValueSeqs(Shl1(d)) :
          EnterNew(d, new_rand_map(d, rnd))
    /\ ctor' = "new_rand"
    /\ UNCHANGED <<mle, z, result, acc>>

\* One turn of for (point, _) in &map: the iterator is exhausted and new
\* returns Ok, or it yields any key not yet yielded and the key is checked.
NewLoop ==
    /\ pc = "new_loop"
    /\ IF iter = {}
       THEN /\ oracle' = BCubeMapOracle(in_dim, in_map)
            /\ pc' = "oracle"
            /\ iter' = iter
       ELSE \E point \in iter :
               LET r == CheckPoint(in_dim, point) IN
               IF r.tag = "Err"
               THEN /\ oracle' = r
                    /\ pc' = "oracle"
                    /\ iter' = {}
               ELSE /\ oracle' = oracle
                    /\ pc' = pc
                    /\ iter' = iter \ {point}
    /\ UNCHANGED <<ctor, in_dim, in_map, mle, z, result, acc>>

MLENew ==
    /\ pc = "oracle"
    /\ oracle.tag = "Ok"
    /\ \E d \in Dims : \E s \in EvaluationType :
          mle' = MultilinearExtension_new(oracle, d, s)
    /\ pc' = "mle"
    /\ UNCHANGED <<ctor, in_dim, in_map, oracle, z, result, iter, acc>>

\* evaluate(z) up to naive's fold: the dispatch, a stub's todo!(), naive's
\* dimension check, and self.oracle.iter() with the accumulator F::zero().
\* evaluate takes &self and changes nothing, so one call from each
\* MultilinearExtension shows every outcome a later call can have.
Evaluate ==
    /\ pc = "mle"
    /\ \E zz \in ZPoints :
          LET r == evaluate(mle, zz) IN
          /\ z' = zz
          /\ result' = r
          /\ pc' = CASE r.tag = "Panic" -> "aborted"
                     [] r.tag = "Err" -> "evaluated"
                     [] OTHER -> "fold"
          /\ iter' = IF r.tag = "None" THEN DOMAIN mle.oracle.map ELSE {}
          /\ acc' = FoldInit
    /\ UNCHANGED <<ctor, in_dim, in_map, oracle, mle>>

\* One turn of try_fold: the iterator is exhausted and the accumulator is
\* returned, or it yields any entry (b, f_b) not yet yielded and the closure
\* runs: an error of eq ends the fold, else acc + f_b * chi goes on.
NaiveFold ==
    /\ pc = "fold"
    /\ IF iter = {}
       THEN /\ result' = Ok(acc)
            /\ pc' = "evaluated"
            /\ UNCHANGED <<iter, acc>>
       ELSE \E b \in iter :
               LET chi == eq(b, z) IN
               IF chi.tag = "Err"
               THEN /\ result' = chi
                    /\ pc' = "evaluated"
                    /\ iter' = {}
                    /\ acc' = acc
               ELSE /\ result' = result
                    /\ pc' = pc
                    /\ iter' = iter \ {b}
                    /\ acc' = FoldStep(acc, mle.oracle.map[b], chi.val)
    /\ UNCHANGED <<ctor, in_dim, in_map, oracle, mle, z>>

Next == OracleNew \/ OracleNewRand \/ NewLoop \/ MLENew \/ Evaluate \/ NaiveFold

Spec == Init /\ [][Next]_vars

\* ------------------------------------------------------------- properties

Built == pc \in {"oracle", "mle", "fold", "evaluated", "aborted"}

Called == pc \in {"evaluated", "aborted"}

\* A Naive evaluation on an extension whose dim is its oracle's dim, at a z
\* of that length.
NaiveCall ==
    /\ Called
    /\ mle.strategy = "Naive"
    /\ mle.dim = mle.oracle.dim
    /\ Len(z) = mle.dim

\* Bit j (0-based, least-significant first) of index i.
BitOf(i, j) == (i \div (2 ^ j)) % 2

\* point(i): the vector whose coordinate j is bit j of i.
PointOf(d, i) == [j \in 1 .. d |-> IF BitOf(i, j - 1) = 1 THEN One ELSE Zero]

\* eq(point(i), zz) read off the bits of i: z_j where bit j is set, else
\* 1 - z_j, over the first n coordinates.
RECURSIVE BasisOf(_, _, _)
BasisOf(i, zz, n) ==
    IF n = 0 THEN One
    ELSE FMul(BasisOf(i, zz, n - 1),
              IF BitOf(i, n - 1) = 1 THEN zz[n] ELSE FSub(One, zz[n]))

\* The sum over the indices i < n of f(point(i)) * eq(point(i), zz).
RECURSIVE SumOver(_, _, _, _)
SumOver(f, d, zz, n) ==
    IF n = 0 THEN Zero
    ELSE FAdd(SumOver(f, d, zz, n - 1),
              FMul(f[PointOf(d, n - 1)], BasisOf(n - 1, zz, d)))

ExampleCall(d, zz) ==
    /\ NaiveCall
    /\ mle.dim = d
    /\ mle.oracle.map \in ExampleMaps(d)
    /\ z = zz

\* C1: a Naive evaluation at a z of the right length returns Ok of the sum
\* over all indices i in [0, 2^d) of f(point(i)) * eq(point(i), z); mod 7,
\* [3, 5] gives 0 at [2], and [1, 2, 3, 4] gives 1 at [0, 0], 4 at [1, 1]
\* and 2 at [1, 0].
C1_NaiveIsTheSum ==
    /\ NaiveCall =>
          result = Ok(SumOver(mle.oracle.map, mle.dim, z, 2 ^ mle.dim))
    /\ (P = 7 /\ ExampleCall(1, <<2>>)) => result = Ok(0)
    /\ (P = 7 /\ ExampleCall(2, <<0, 0>>)) => result = Ok(1)
    /\ (P = 7 /\ ExampleCall(2, <<1, 1>>)) => result = Ok(4)
    /\ (P = 7 /\ ExampleCall(2, <<1, 0>>)) => result = Ok(2)

C1_Witness == ExampleCall(2, <<1, 2>>) /\ result.tag = "Ok"

\* C2: a Naive evaluation at the Boolean point of an index i returns exactly
\* what the oracle's query returns for that point.
C2_Interpolation ==
    NaiveCall =>
        \A i \in 0 .. (2 ^ mle.dim - 1) :
            z = PointOf(mle.dim, i) =>
                /\ result.tag = "Ok"
                /\ result = query(mle.oracle, PointOf(mle.dim, i))

C2_Witness ==
    /\ NaiveCall
    /\ mle.dim = 2
    /\ z = <<One, Zero>>
    /\ mle.oracle.map[<<One, Zero>>] # mle.oracle.map[<<Zero, One>>]
    /\ result = Ok(mle.oracle.map[<<One, Zero>>])

\* C3: whatever the strategy, evaluate at a z of the wrong length returns
\* WrongDimension{expected: dim, found: z.length}.
C3_DimensionGuard ==
    (Called /\ Len(z) # mle.dim) => result = WrongDimension(mle.dim, Len(z))

\* C4: evaluate always returns Ok or a typed error; it never aborts.
C4_EvaluateIsTotal == Called => result.tag \in {"Ok", "Err"}

WellFormed(d, m) ==
    /\ Cardinality(DOMAIN m) = 2 ^ d
    /\ \A k \in DOMAIN m :
          /\ Len(k) = d
          /\ \A j \in 1 .. Len(k) : k[j] \in {Zero, One}

\* C5: new returns Ok iff the map has 2^dim entries, every key has length
\* dim and every coordinate is 0 or 1; the keys of an accepted map are all
\* the points of {0,1}^dim, and the oracle holds the dim and map given.
C5_NewAcceptsExactlyTheCube ==
    (Built /\ ctor = "new") =>
        /\ (oracle.tag = "Ok") <=> WellFormed(in_dim, in_map)
        /\ oracle.tag = "Ok" =>
              /\ DOMAIN oracle.map = BoolKeys(in_dim)
              /\ oracle.dim = in_dim
              /\ oracle.map = in_map

C5_Witness ==
    /\ pc = "oracle"
    /\ ctor = "new"
    /\ in_dim = 2
    /\ oracle.tag = "Ok"
    /\ Cardinality(DOMAIN oracle.map) = 4

WrongLength(d, m) == {k \in DOMAIN m : Len(k) # d}

\* The keys of the right length with a coordinate outside {0, 1}.
NonBoolean(d, m) ==
    {k \in DOMAIN m : Len(k) = d /\ \E j \in 1 .. d : k[j] \notin {Zero, One}}

SizeOk(d, m) == Cardinality(DOMAIN m) = 2 ^ d

\* C6 as claimed: size, then key length over all keys, then booleanness: a
\* wrong-length key anywhere in a map of the right size gives
\* IncorrectOraclePointDimension, and NonbooleanOraclePoint is returned only
\* when every key has length dim.
C6_LengthBeforeBooleanAcrossKeys ==
    (Built /\ ctor = "new") =>
        /\ ~SizeOk(in_dim, in_map) => oracle = IncorrectOracleSize
        /\ (SizeOk(in_dim, in_map) /\ WrongLength(in_dim, in_map) # {}) =>
              \E k \in WrongLength(in_dim, in_map) :
                  oracle = IncorrectOraclePointDimension(in_dim, Len(k))
        /\ oracle = NonbooleanOraclePoint =>
              (SizeOk(in_dim, in_map) /\ WrongLength(in_dim, in_map) = {})

\* C6 amended: the size is checked first; then the keys are checked one at a
\* time, length before booleanness, and the first failing key decides.  With
\* a wrong-length key and no non-boolean key of length dim the result is
\* IncorrectOraclePointDimension; with both kinds it is either error;
\* NonbooleanOraclePoint needs a non-boolean key of length dim.
C6_FirstFailingKeyDecides ==
    (Built /\ ctor = "new") =>
        /\ ~SizeOk(in_dim, in_map) => oracle = IncorrectOracleSize
        /\ (SizeOk(in_dim, in_map) /\ WrongLength(in_dim, in_map) # {}) =>
              \/ \E k \in WrongLength(in_dim, in_map) :
                    oracle = IncorrectOraclePointDimension(in_dim, Len(k))
              \/ /\ NonBoolean(in_dim, in_map) # {}
                 /\ oracle = NonbooleanOraclePoint
        /\ oracle = NonbooleanOraclePoint =>
              (SizeOk(in_dim, in_map) /\ NonBoolean(in_dim, in_map) # {})
        /\ (oracle.tag = "Err"
              /\ oracle.err = "IncorrectOraclePointDimension") =>
              /\ SizeOk(in_dim, in_map)
              /\ \E k \in WrongLength(in_dim, in_map) :
                    oracle = IncorrectOraclePointDimension(in_dim, Len(k))

C6_Witness ==
    /\ pc = "oracle"
    /\ ctor = "new"
    /\ SizeOk(in_dim, in_map)
    /\ WrongLength(in_dim, in_map) # {}
    /\ NonBoolean(in_dim, in_map) # {}
    /\ oracle = NonbooleanOraclePoint

\* C7: new(0, map) accepts the map whose single key is the empty vector,
\* and Naive evaluate([]) on it returns Ok of the stored value.
C7_DimensionZero ==
    /\ (Built /\ ctor = "new" /\ in_dim = 0 /\ DOMAIN in_map = {<<>>}) =>
          oracle.tag = "Ok"
    /\ (NaiveCall /\ mle.dim = 0 /\ z = <<>>) =>
          result = Ok(in_map[<<>>])

C7_Witness ==
    /\ NaiveCall
    /\ ctor = "new"
    /\ mle.dim = 0
    /\ in_map = [k \in {<<>>} |-> 9 % P]
    /\ z = <<>>
    /\ result = Ok(9 % P)

\* try_fold over the points of index 0, 1, ..., n - 1, in that order.
RECURSIVE FoldByIndex(_, _, _, _)
FoldByIndex(m, d, zz, n) ==
    IF n = 0 THEN Ok(FoldInit)
    ELSE LET before == FoldByIndex(m, d, zz, n - 1)
             b == to_bcube_elt(d, n - 1)
             chi == eq(b, zz)
         IN IF before.tag = "Err" THEN before
            ELSE IF chi.tag = "Err" THEN chi
            ELSE Ok(FoldStep(before.val, m[b], chi.val))

\* C8: whatever the order in which the oracle's iterator yielded the
\* entries, a Naive evaluation returns what the fold returns when the
\* entries come in index order: every order gives the same value.
C8_OrderIndependence ==
    NaiveCall =>
        result = FoldByIndex(mle.oracle.map, mle.dim, z, 2 ^ mle.dim)

C8_Witness ==
    /\ NaiveCall
    /\ mle.dim = 2
    /\ z = <<2, 2>>
    /\ Cardinality({mle.oracle.map[k] : k \in DOMAIN mle.oracle.map}) = 4
    /\ result.tag = "Ok"

\* C9: new_rand returns Ok: its keys to_bcube_elt(dim, n), n < 2^dim, are
\* pairwise distinct, of length dim and boolean, so the map it builds has
\* 2^dim entries.
C9_NewRandSucceeds ==
    (Built /\ ctor = "new_rand") =>
        /\ oracle.tag = "Ok"
        /\ Cardinality(DOMAIN in_map) = 2 ^ in_dim
        /\ \A n, m \in 0 .. (2 ^ in_dim - 1) :
              n # m => to_bcube_elt(in_dim, n) # to_bcube_elt(in_dim, m)
        /\ \A n \in 0 .. (2 ^ in_dim - 1) :
              /\ to_bcube_elt(in_dim, n) \in DOMAIN in_map
              /\ Len(to_bcube_elt(in_dim, n)) = in_dim
              /\ \A j \in 1 .. in_dim :
                    to_bcube_elt(in_dim, n)[j] \in {Zero, One}

C9_Witness ==
    /\ pc = "oracle"
    /\ ctor = "new_rand"
    /\ in_dim = 2
    /\ oracle.tag = "Ok"
    /\ oracle.map[<<Zero, One>>] # oracle.map[<<One, Zero>>]

\* C10: an extension built with a dim other than its oracle's never
\* evaluates to Ok under Naive: WrongDimension when z.length differs from
\* dim, else InconsistentDimensions{b_dim: oracle dim, z_dim: z.length}.
C10_MismatchFoundAtEvaluation ==
    (Called /\ mle.strategy = "Naive" /\ mle.dim # mle.oracle.dim) =>
        /\ result.tag # "Ok"
        /\ result = IF Len(z) # mle.dim
                    THEN WrongDimension(mle.dim, Len(z))
                    ELSE InconsistentDimensions(mle.oracle.dim, Len(z))

C10_Witness ==
    /\ Called
    /\ mle.strategy = "Naive"
    /\ mle.oracle.dim = 2
    /\ mle.dim = 1
    /\ Len(z) = 1
    /\ result = InconsistentDimensions(2, 1)

=============================================================================
